---- MODULE Spec2Model ----
(***************************************************************************)
(* Model of source/ingest_app_csv/app.py: the topic initializer            *)
(* (initialize_async, create_live_layer, initialize_device_prim) and the   *)
(* playback driver (run, write_to_live), driven by the __main__ block.     *)
(*                                                                         *)
(* Time is counted in ticks, TicksPerSec ticks to the second, so that the  *)
(* truncation dt.floor("s") is a real operation.  Every duration (sleep,   *)
(* value of the _ts slot, clock) is a number of ticks.                     *)
(***************************************************************************)
EXTENDS Integers, Sequences, FiniteSets

\* ---------------------------------------------------------------- bounds
MaxRows == 2
MaxTick == 5
TicksPerSec == 2

\* ------------------------------------------------------------ CSV domain
\* pandas reads an empty Id cell as NaN; an f-string renders it as "nan".
NoId == "nan"
\* name of the reserved timestamp attribute (app.py lines 75 and 191)
TsSlot == "_ts"
\* Id values a CSV row can carry, in the str order pandas' groupby sorts by
IdOrder == <<"A", "B", "_ts">>
Ids == {IdOrder[i] : i \in 1..Len(IdOrder)} \cup {NoId}
Ticks == 0..MaxTick
\* attribute names a previous run can have left on the topic's prim
PriorNames == {"_ts", "Z"}

VARIABLES
    csv,          \* content of {topic}_iot_data.csv: rows [Id, TimeStamp, Value]
    pc,           \* position of the __main__ block
    exc,          \* exception caught by __main__ ("none" when there is none)
    connStatus,   \* result of omni.client.stat in check_connection
    copyStatus,   \* result of omni.client.copy_async
    layerExists,  \* the {topic}.live layer exists on the server
    specExists,   \* the prim /iot/{topic} exists in the live layer
    slots,        \* iot_spec.attributes: names of the attributes of the prim
    removed,      \* names passed to iot_spec.RemoveProperty
    start_time,   \* run: data.min()["TimeStamp"]
    last_time,    \* run: timestamp of the batch written last
    k,            \* run: number of groups the for loop has taken
    sleeps,       \* arguments of the time.sleep calls made, in order
    clock,        \* time spent in time.sleep so far
    log           \* attribute writes made: [batch, slot, value, at]

vars == <<csv, pc, exc, connStatus, copyStatus, layerExists, specExists,
          slots, removed, start_time, last_time, k, sleeps, clock, log>>

setupVars == <<connStatus, copyStatus, layerExists, specExists, slots, removed>>
runVars == <<start_time, last_time, k, sleeps, clock, log>>

\* ------------------------------------------------------- pure functions
\* data["TimeStamp"].dt.floor("s")
Floor(t) == (t \div TicksPerSec) * TicksPerSec

RECURSIVE SetToSortedSeq(_)
SetToSortedSeq(S) ==
    IF S = {} THEN <<>>
    ELSE LET m == CHOOSE x \in S : \A y \in S : x <= y
         IN <<m>> \o SetToSortedSeq(S \ {m})

RECURSIVE SetToReverseSeq(_)
SetToReverseSeq(S) ==
    IF S = {} THEN <<>>
    ELSE LET m == CHOOSE x \in S : \A y \in S : x >= y
         IN <<m>> \o SetToReverseSeq(S \ {m})

\* keys of data.groupby("TimeStamp") after the floor, in iteration order
GroupKeysUnsorted(data) == SetToReverseSeq({Floor(data[i].TimeStamp) : i \in DOMAIN data})
GroupKeys(data) == SetToSortedSeq({Floor(data[i].TimeStamp) : i \in DOMAIN data})

\* the rows of one group, in file order
Group(data, key) == SelectSeq(data, LAMBDA r : Floor(r.TimeStamp) = key)

\* keys of data.groupby("Id"): NaN keys are dropped, the rest sorted
GroupIdsKeepNaN(data) ==
    LET present == {data[i].Id : i \in DOMAIN data}
    IN SelectSeq(IdOrder \o <<NoId>>, LAMBDA n : n \in present)
GroupIds(data) ==
    LET present == {data[i].Id : i \in DOMAIN data} \ {NoId}
    IN SelectSeq(IdOrder, LAMBDA n : n \in present)

\* data.min()["TimeStamp"] on the floored column; 0 stands for NaT (no rows)
MinTimeStamp(data) ==
    IF data = <<>> THEN 0
    ELSE LET S == {Floor(data[i].TimeStamp) : i \in DOMAIN data}
         IN CHOOSE x \in S : \A y \in S : x <= y

\* the Id column holds both str values and NaN: DataFrame.min() compares
\* them, which raises TypeError or drops the column, depending on pandas
MixedIdColumn(data) ==
    /\ \E i \in DOMAIN data : data[i].Id = NoId
    /\ \E i \in DOMAIN data : data[i].Id # NoId


\* --------------------------------------------- initialize_device_prim
\* for attrib in iot_spec.attributes: iot_spec.RemoveProperty(attrib)
ClearEveryOther(attrs) ==
    LET order == SelectSeq(<<TsSlot, "A", "B", "Z">>, LAMBDA n : n \in attrs)
    IN {order[i] : i \in {j \in DOMAIN order : j % 2 = 0}}
ClearAttributes(attrs) == attrs \ attrs

\* Sdf.AttributeSpec(iot_spec, name, Double) called for each name in turn.
\* The library returns no spec when the prim already has a property of
\* that name, or when it refuses the declaration (refused); the code
\* raises at the first such name and keeps what it declared before.
RECURSIVE DeclareFirstGroupOnly(_, _, _)
DeclareFirstGroupOnly(names, have, refused) ==
    IF names = <<>> THEN [slots |-> have, raised |-> FALSE]
    ELSE IF Head(names) \in have \/ Head(names) = refused
         THEN [slots |-> have, raised |-> TRUE]
         ELSE IF Len(names) > 2
              THEN DeclareFirstGroupOnly(SubSeq(names, 1, 2), have, refused)
              ELSE DeclareFirstGroupOnly(Tail(names), have \cup {Head(names)}, refused)

RECURSIVE DeclareEach(_, _, _)
DeclareEach(names, have, refused) ==
    IF names = <<>> THEN [slots |-> have, raised |-> FALSE]
    ELSE IF Head(names) \in have \/ Head(names) = refused
         THEN [slots |-> have, raised |-> TRUE]
         ELSE DeclareEach(Tail(names), have \cup {Head(names)}, refused)

\* lines 66-85: clear, declare _ts, declare one attribute per Id group
DeclareSlots(prior, data, refused) ==
    DeclareEach(<<TsSlot>> \o GroupIds(data), ClearAttributes(prior), refused)

\* -------------------------------------------------------- write_to_live
\* the loop of lines 194-200 over the rows of the group
RECURSIVE WriteRowsSkipMissing(_, _, _, _)
WriteRowsSkipMissing(rows, have, key, at) ==
    IF rows = <<>> THEN [writes |-> <<>>, raised |-> FALSE]
    ELSE IF Head(rows).Id \notin have
         THEN WriteRowsSkipMissing(Tail(rows), have, key, at)
         ELSE LET rest == WriteRowsSkipMissing(Tail(rows), have, key, at)
              IN [writes |-> <<[batch |-> key, slot |-> Head(rows).Id,
                                value |-> Head(rows).Value, at |-> at]>>
                             \o rest.writes,
                  raised |-> rest.raised]

RECURSIVE WriteRows(_, _, _, _)
WriteRows(rows, have, key, at) ==
    IF rows = <<>> THEN [writes |-> <<>>, raised |-> FALSE]
    ELSE IF Head(rows).Id \notin have
         THEN [writes |-> <<>>, raised |-> TRUE]
         ELSE LET rest == WriteRows(Tail(rows), have, key, at)
              IN [writes |-> <<[batch |-> key, slot |-> Head(rows).Id,
                                value |-> Head(rows).Value, at |-> at]>>
                             \o rest.writes,
                  raised |-> rest.raised]

\* lines 190-201: the _ts write, then the rows inside the ChangeBlock.  A
\* ChangeBlock groups change notices; it does not undo the writes made
\* before an exception leaves it.
WriteToLive(have, group, key, ts, at) ==
    IF TsSlot \notin have
    THEN [writes |-> <<>>, raised |-> TRUE]
    ELSE LET rows == WriteRows(group, have, key, at)
         IN [writes |-> <<[batch |-> key, slot |-> TsSlot,
                           value |-> ts, at |-> at]>> \o rows.writes,
             raised |-> rows.raised]

\* ------------------------------------------------------------------ run
\* line 229: diff = (next_time - last_time).total_seconds()
DelayReversed(next_time, last) == last - next_time
Delay(next_time, last) == next_time - last

\* line 232: (next_time - start_time).total_seconds()
PlaybackClockAbsolute(next_time, start) == next_time
PlaybackClock(next_time, start) == next_time - start

\* ------------------------------------------------------------- actions
Raise(e) == /\ exc' = e
            /\ pc' = "except"

Init ==
    /\ \E n \in 0..MaxRows :
         \E f \in [1..n -> [Id : Ids, TimeStamp : Ticks]] :
            csv = [i \in 1..n |-> [Id |-> f[i].Id,
                                   TimeStamp |-> f[i].TimeStamp,
                                   Value |-> i]]
    /\ pc = "initialize"
    /\ exc = "none"
    /\ connStatus = "unknown"
    /\ copyStatus = "unknown"
    /\ removed = {}
    /\ \/ layerExists = FALSE /\ specExists = FALSE /\ slots = {}
       \/ layerExists = TRUE /\ specExists = TRUE /\ slots \in {{}, PriorNames}
    /\ start_time = 0
    /\ last_time = 0
    /\ k = 0
    /\ sleeps = <<>>
    /\ clock = 0
    /\ log = <<>>

\* lines 249-252: omni.client.initialize(); exit(1) when it fails
client_initialize ==
    /\ pc = "initialize"
    /\ \E ok \in BOOLEAN : pc' = IF ok THEN "check_connection" ELSE "exited"
    /\ UNCHANGED <<csv, exc, setupVars, runVars>>

\* lines 235-243, with exit(1) in place of the commented-out line 241
check_connection_exit ==
    /\ pc = "check_connection"
    /\ \E st \in {"OK", "ERROR"} :
         /\ connStatus' = st
         /\ pc' = IF st = "OK" THEN "copy_async" ELSE "exited"
    /\ UNCHANGED <<csv, exc, copyStatus, layerExists, specExists, slots, removed, runVars>>

\* lines 235-243: the status is printed, nothing else depends on it
check_connection ==
    /\ pc = "check_connection"
    /\ \E st \in {"OK", "ERROR"} : connStatus' = st
    /\ pc' = "copy_async"
    /\ UNCHANGED <<csv, exc, copyStatus, layerExists, specExists, slots, removed, runVars>>

\* lines 131-145: the result is printed, nothing else depends on it
copy_async ==
    /\ pc = "copy_async"
    /\ \E st \in {"OK", "ERROR"} : copyStatus' = st
    /\ pc' = "open_stage"
    /\ UNCHANGED <<csv, exc, connStatus, layerExists, specExists, slots, removed, runVars>>

\* lines 147-150
open_stage ==
    /\ pc = "open_stage"
    /\ \E ok \in BOOLEAN :
         IF ok THEN pc' = "live_layer" /\ exc' = exc
               ELSE Raise("stage")
    /\ UNCHANGED <<csv, setupVars, runVars>>

\* lines 152-168 and create_live_layer (98-106): find or create the live
\* layer, link it under the root layer, make it the edit target
find_or_create_live_layer ==
    /\ pc = "live_layer"
    /\ IF layerExists
       THEN /\ pc' = "device_prim"
            /\ UNCHANGED <<exc, layerExists>>
       ELSE \E ok \in BOOLEAN :
              IF ok THEN /\ layerExists' = TRUE
                         /\ pc' = "device_prim"
                         /\ exc' = exc
                    ELSE /\ Raise("live_layer")
                         /\ UNCHANGED layerExists
    /\ UNCHANGED <<csv, connStatus, copyStatus, specExists, slots, removed, runVars>>

\* lines 56-85, then live_process and the return of initialize_async
initialize_device_prim ==
    /\ pc = "device_prim"
    /\ \/ /\ ~specExists
          /\ Raise("iot_spec")
          /\ UNCHANGED <<specExists, slots, removed>>
       \/ \E refused \in {"-"} \cup (Ids \ {NoId}) :
            LET r == DeclareSlots(slots, csv, refused)
            IN /\ specExists' = TRUE
               /\ removed' = slots \ ClearAttributes(slots)
               /\ slots' = r.slots
               /\ IF r.raised THEN Raise("attribute")
                              ELSE pc' = "run" /\ exc' = exc
    /\ UNCHANGED <<csv, connStatus, copyStatus, layerExists, runVars>>

\* lines 213-225: read the file, floor the timestamps, take the minimum
run_read ==
    /\ pc = "run"
    /\ \/ /\ MixedIdColumn(csv)
          /\ Raise("reduce")
          /\ UNCHANGED <<start_time, last_time>>
       \/ /\ start_time' = MinTimeStamp(csv)
          /\ last_time' = MinTimeStamp(csv)
          /\ pc' = "loop"
          /\ exc' = exc
    /\ UNCHANGED <<csv, setupVars, k, sleeps, clock, log>>

\* lines 228-233: one iteration of the for loop
run_loop ==
    /\ pc = "loop"
    /\ k < Len(GroupKeys(csv))
    /\ LET next_time == GroupKeys(csv)[k + 1]
           diff == Delay(next_time, last_time)
           now == IF diff > 0 THEN clock + diff ELSE clock
           w == WriteToLive(slots, Group(csv, next_time), next_time,
                            PlaybackClock(next_time, start_time), now)
       IN /\ sleeps' = IF diff > 0 THEN Append(sleeps, diff) ELSE sleeps
          /\ clock' = now
          /\ log' = log \o w.writes
          /\ IF w.raised
             THEN /\ Raise("missing_slot")
                  /\ UNCHANGED <<k, last_time>>
             ELSE /\ k' = k + 1
                  /\ last_time' = next_time
                  /\ UNCHANGED <<pc, exc>>
    /\ UNCHANGED <<csv, setupVars, start_time>>

\* the for loop is exhausted: run returns to __main__, whose finally
\* block (lines 264-265) shuts the client down
run_return ==
    /\ pc = "loop"
    /\ k = Len(GroupKeys(csv))
    /\ pc' = "done"
    /\ UNCHANGED <<csv, exc, setupVars, runVars>>

\* lines 259-265, with the handler going on to run
main_except_resume ==
    /\ pc = "except"
    /\ pc' = "run"
    /\ UNCHANGED <<csv, exc, setupVars, runVars>>

\* lines 259-265: the handler prints, the finally block shuts down
main_except ==
    /\ pc = "except"
    /\ pc' = "done"
    /\ UNCHANGED <<csv, exc, setupVars, runVars>>

Next ==
    \/ client_initialize
    \/ check_connection
    \/ copy_async
    \/ open_stage
    \/ find_or_create_live_layer
    \/ initialize_device_prim
    \/ run_read
    \/ run_loop
    \/ run_return
    \/ main_except

Spec == Init /\ [][Next]_vars

\* ------------------------------------------------------------ properties
\* a timestamp with its sub-second part dropped
Truncated(t) == t - (t % TicksPerSec)

\* the distinct truncated timestamps of the file
Seconds == {Truncated(csv[i].TimeStamp) : i \in DOMAIN csv}

\* the writes of the timestamp slot, one per batch, in the order made
TsWrites == SelectSeq(log, LAMBDA e : e.slot = TsSlot)

\* the writes of sample values, in the order made
ValueWrites == SelectSeq(log, LAMBDA e : e.slot # TsSlot)

\* initialize_async has returned and run has been entered
InitCompleted ==
    /\ pc \in {"run", "loop", "except", "done"}
    /\ exc \in {"none", "reduce", "missing_slot"}

\* run has returned normally
PlaybackFinished == pc = "done" /\ exc = "none"

\* every truncated timestamp of the file has its batch in the log
AllBatchesWritten == {TsWrites[i].batch : i \in DOMAIN TsWrites} = Seconds

SetupFailures == {"stage", "live_layer", "iot_spec", "attribute"}

\* C1: a sample whose identifier has no slot stops playback at its batch:
\* no batch later than that sample's batch is ever written, within its
\* batch nothing at or after the sample is written (so the sample is not
\* skipped and its value goes to no other slot), and run does not return
\* normally.
C1_MissingSlotStopsPlayback ==
    \A j \in DOMAIN csv :
        csv[j].Id \notin slots =>
            /\ ~(InitCompleted /\ PlaybackFinished)
            /\ \A i \in DOMAIN log :
                 /\ log[i].batch <= Truncated(csv[j].TimeStamp)
                 /\ (log[i].batch = Truncated(csv[j].TimeStamp) /\ log[i].slot # TsSlot)
                        => log[i].value < csv[j].Value

\* playback has aborted on a missing slot while a later batch was waiting
C1_Witness ==
    /\ exc = "missing_slot"
    /\ pc = "done"
    /\ log # <<>>
    /\ \E s \in Seconds : \A i \in DOMAIN log : log[i].batch < s

\* C2: the writes of one batch are all applied or none is: for every
\* truncated timestamp the log holds either no write of that batch or the
\* timestamp write and one write per sample of the batch.
C2_BatchAtomic ==
    \A s \in Seconds :
        LET made == {i \in DOMAIN log : log[i].batch = s}
            rows == {j \in DOMAIN csv : Truncated(csv[j].TimeStamp) = s}
        IN Cardinality(made) \in {0, 1 + Cardinality(rows)}

\* C3: every value written to the timestamp slot is the batch's truncated
\* timestamp minus the smallest truncated timestamp of the file; the first
\* one is 0 and the values never decrease from one batch to the next.
C3_TimestampSlotValue ==
    /\ \A i \in DOMAIN TsWrites :
         /\ TsWrites[i].batch \in Seconds
         /\ \A s \in Seconds :
              (\A u \in Seconds : s <= u) => TsWrites[i].value = TsWrites[i].batch - s
    /\ TsWrites # <<>> => TsWrites[1].value = 0
    /\ \A i \in DOMAIN TsWrites : i > 1 => TsWrites[i - 1].value <= TsWrites[i].value

\* two batches have been written from a file that does not start at time 0
C3_Witness ==
    /\ PlaybackFinished
    /\ Len(TsWrites) = 2
    /\ TsWrites[2].value > 0
    /\ start_time > 0

C5_SlotSet ==
    InitCompleted =>
        slots = {TsSlot} \cup {id \in Ids \ {NoId} : \E i \in DOMAIN csv : csv[i].Id = id}

\* initialization completed on a file with two Ids, the larger one first
C5_Witness ==
    /\ InitCompleted
    /\ Len(csv) = 2
    /\ csv[1].Id = "B"
    /\ csv[2].Id = "A"
    /\ slots = {TsSlot, "A", "B"}

\* C6: once initialize_device_prim has completed, no attribute a previous
\* run left on the prim survives unless the file declares it again: every
\* attribute found was removed, and the slots are those an initialization
\* of an empty prim declares, which is the timestamp slot and one slot per
\* group of the Id column.
C6_Idempotent ==
    InitCompleted =>
        /\ \A n \in PriorNames \ {TsSlot} : n \notin slots
        /\ \A n \in slots : n = TsSlot \/ \E i \in DOMAIN csv : csv[i].Id = n
        /\ Cardinality(slots) =
             1 + Cardinality({csv[i].Id : i \in DOMAIN csv} \ {NoId})

\* initialization completed on a prim that held attributes of a previous run
C6_Witness ==
    /\ InitCompleted
    /\ removed = PriorNames
    /\ csv # <<>>

\* C7: after a setup failure no batch is written and no sleep is made.
C7_SetupFailureIsFatal ==
    exc \in SetupFailures => log = <<>> /\ sleeps = <<>> /\ clock = 0

\* a slot could not be declared, for a file with two batches to play
C7_Witness ==
    /\ exc = "attribute"
    /\ pc = "done"
    /\ Cardinality(Seconds) = 2

\* C8: when every sample identifier has a slot, the batches are written in
\* strictly ascending order of truncated timestamp, hence each once; while
\* the loop runs the batches written are the k smallest truncated
\* timestamps, no exception is raised, and when run has returned every
\* truncated timestamp of the file has been written.
C8_ChronologicalOnce ==
    (InitCompleted /\ \A j \in DOMAIN csv : csv[j].Id \in slots) =>
        /\ \A i \in DOMAIN TsWrites : i > 1 => TsWrites[i - 1].batch < TsWrites[i].batch
        /\ \A i \in DOMAIN TsWrites : TsWrites[i].batch \in Seconds
        /\ \A i \in DOMAIN TsWrites : \A s \in Seconds :
             s < TsWrites[i].batch => \E h \in 1..(i - 1) : TsWrites[h].batch = s
        /\ Len(TsWrites) = k
        /\ Len(ValueWrites) =
             Cardinality({j \in DOMAIN csv :
                 \E i \in DOMAIN TsWrites : TsWrites[i].batch = Truncated(csv[j].TimeStamp)})
        /\ exc = "none"
        /\ pc = "done" => AllBatchesWritten

\* run returned after two batches read from rows in descending time order
C8_Witness ==
    /\ PlaybackFinished
    /\ Len(csv) = 2
    /\ csv[1].TimeStamp > csv[2].TimeStamp
    /\ Len(TsWrites) = 2
    /\ AllBatchesWritten

\* C9: a failed connectivity check or copy neither ends the process nor
\* raises: the program is then never in the exited state, and it reaches
\* the copy and the opening of the stage with no exception.
C9_AdvisoryFailures ==
    (connStatus = "ERROR" \/ copyStatus = "ERROR") =>
        /\ pc # "exited"
        /\ pc \in {"copy_async", "open_stage", "live_layer", "device_prim"} => exc = "none"

\* both checks failed and playback still wrote every batch
C9_Witness ==
    /\ connStatus = "ERROR"
    /\ copyStatus = "ERROR"
    /\ PlaybackFinished
    /\ Seconds # {}
    /\ AllBatchesWritten

\* C10 as stated: after a successful initialization every row has a slot,
\* playback never aborts and ends with every batch written, for every file.
C10_AbortUnreachable ==
    InitCompleted =>
        /\ \A j \in DOMAIN csv : csv[j].Id \in slots
        /\ exc = "none"
        /\ pc = "done" => AllBatchesWritten

\* C10 amended: the same, for every file none of whose rows has an empty Id.
C10_AbortUnreachableWithIds ==
    (InitCompleted /\ \A j \in DOMAIN csv : csv[j].Id # NoId) =>
        /\ \A j \in DOMAIN csv : csv[j].Id \in slots
        /\ exc = "none"
        /\ pc = "done" => AllBatchesWritten

\* playback finished on a file with two Ids in two batches
C10_Witness ==
    /\ PlaybackFinished
    /\ Len(csv) = 2
    /\ csv[1].Id # csv[2].Id
    /\ Cardinality(Seconds) = 2
    /\ Len(ValueWrites) = 2

====
